---- MODULE Spec2Model ----
(***************************************************************************)
(* Model of the notes manager of src/notes_frontend/app.vue: the reactive  *)
(* state (notes, currentNoteId, dirty), the 'notes' key of localStorage,   *)
(* the event handlers of the component and the deep watcher that persists  *)
(* notes after every handler that touched it.                              *)
(***************************************************************************)
EXTENDS Integers, Sequences, FiniteSets, TLC

\* ------------------------------------------------------------------ bounds
MaxNotes == 2      \* longest notes array the model builds
MaxClock == 1      \* largest value Date.now() returns

\* ------------------------------------------------------------- value sets
\* One id more than notes can hold, so that some id is always absent.
IdNames == <<"n1", "n2", "n3", "n4", "n5", "n6">>
Ids     == {IdNames[i] : i \in 1..(MaxNotes + 1)}
Null    == "null"                     \* currentNoteId.value === null
AbsentId == "n0"                      \* an id no note ever has
\* The ids a caller can pass: every id that was ever in a note, and one that
\* stands for the ids that never were.
Args(used) == used \cup {AbsentId}
Texts   == {"", "a\"b"}               \* what the user can type in a field

\* ------------------------------------------------------------ JSON text
\* A JSON text is a string; Char(t, i) is its i-th character.
Char(t, i) == SubSeq(t, i, i)

Quote     == "\""
Backslash == "\\"
Digits    == {"0", "1", "2", "3", "4", "5", "6", "7", "8", "9"}

\* The characters of x from position k on, quotes and backslashes escaped.
RECURSIVE Escape(_, _)
Escape(x, k) ==
    IF k > Len(x) THEN ""
    ELSE (IF Char(x, k) \in {Quote, Backslash} THEN Backslash ELSE "")
         \o Char(x, k) \o Escape(x, k + 1)

\* A string literal written without escaping its characters.
StringifyString_raw(x) == Quote \o x \o Quote

StringifyString(x) == Quote \o Escape(x, 1) \o Quote

\* A non-negative integer is written as its decimal digits.
StringifyNumber(i) == ToString(i)

\* JSON.stringify of one Note: its own properties in insertion order.
StringifyNote(note) ==
    "{" \o StringifyString("id")      \o ":" \o StringifyString(note.id)
    \o "," \o StringifyString("title")   \o ":" \o StringifyString(note.title)
    \o "," \o StringifyString("body")    \o ":" \o StringifyString(note.body)
    \o "," \o StringifyString("created") \o ":" \o StringifyNumber(note.created)
    \o "," \o StringifyString("updated") \o ":" \o StringifyNumber(note.updated)
    \o "}"

\* The elements of ns from index i on, separated by commas.
RECURSIVE StringifyElems(_, _)
StringifyElems(ns, i) ==
    IF i > Len(ns) THEN ""
    ELSE IF i = Len(ns) THEN StringifyNote(ns[i])
    ELSE StringifyNote(ns[i]) \o "," \o StringifyElems(ns, i + 1)

\* JSON.stringify(notes.value): null for null, else the array of the notes.
JSONstringify(isNull, ns) ==
    IF isNull THEN "null" ELSE "[" \o StringifyElems(ns, 1) \o "]"

\* F applied to the value of v, which is evaluated once.
With(v, F(_)) == CHOOSE r \in {F(x) : x \in {v}} : TRUE

\* A parse result: the parsed value (a string in s or a number in n, or a
\* sequence in val) and the position after it; ok = FALSE is a SyntaxError.
Fail == [ok |-> FALSE, s |-> "", n |-> 0, isNum |-> FALSE, val |-> << >>,
         next |-> 0]
Got(str, num, isNum, val, next) ==
    [ok |-> TRUE, s |-> str, n |-> num, isNum |-> isNum, val |-> val,
     next |-> next]

\* The position of the quote that closes a literal, scanning from position
\* j on and skipping each backslash with the character it escapes; 0 if the
\* text ends first.
RECURSIVE ClosingQuote(_, _)
ClosingQuote(t, j) ==
    IF j > Len(t) THEN 0
    ELSE IF Char(t, j) = Quote THEN j
    ELSE IF Char(t, j) = Backslash THEN ClosingQuote(t, j + 2)
    ELSE ClosingQuote(t, j + 1)

\* The characters of t from position j up to position e - 1, escapes undone;
\* only \" and \\ are escapes.
RECURSIVE Unescape(_, _, _)
Unescape(t, j, e) ==
    IF j >= e THEN [ok |-> TRUE, s |-> ""]
    ELSE IF Char(t, j) = Backslash
    THEN IF j + 1 < e /\ Char(t, j + 1) \in {Quote, Backslash}
         THEN With(Unescape(t, j + 2, e), LAMBDA r :
                [ok |-> r.ok, s |-> Char(t, j + 1) \o r.s])
         ELSE [ok |-> FALSE, s |-> ""]
    ELSE With(Unescape(t, j + 1, e), LAMBDA r :
           [ok |-> r.ok, s |-> Char(t, j) \o r.s])

\* A string literal whose opening quote is at position i.
ParseString(t, i) ==
    IF i > Len(t) \/ Char(t, i) # Quote THEN Fail
    ELSE With(ClosingQuote(t, i + 1), LAMBDA e :
           IF e = 0 THEN Fail
           ELSE With(Unescape(t, i + 1, e), LAMBDA x :
                  IF x.ok THEN Got(x.s, 0, FALSE, << >>, e + 1) ELSE Fail))

DigitValue(c) == CHOOSE d \in 0..9 : ToString(d) = c

\* The first position from j on that holds no digit.
RECURSIVE DigitsEnd(_, _)
DigitsEnd(t, j) ==
    IF j <= Len(t) /\ Char(t, j) \in Digits THEN DigitsEnd(t, j + 1) ELSE j

\* The value of the digits of t from position i to position e.
RECURSIVE DigitsValue(_, _, _)
DigitsValue(t, i, e) ==
    IF e < i THEN 0
    ELSE 10 * DigitsValue(t, i, e - 1) + DigitValue(Char(t, e))

\* A number at position i: digits, without a leading zero.
ParseNumber(t, i) ==
    With(DigitsEnd(t, i), LAMBDA e :
      IF e = i \/ (Char(t, i) = "0" /\ e > i + 1) THEN Fail
      ELSE Got("", DigitsValue(t, i, e - 1), TRUE, << >>, e))

\* A member value at position i: a string literal or a number.
ParseValue(t, i) ==
    IF i > Len(t) THEN Fail
    ELSE IF Char(t, i) = Quote THEN ParseString(t, i)
    ELSE ParseNumber(t, i)

\* The object built from key/value pairs; a later duplicate key wins.
ObjectOf(pairs) ==
    LET keys == {pairs[i].key : i \in 1..Len(pairs)}
        last(key) == CHOOSE i \in 1..Len(pairs) :
                        /\ pairs[i].key = key
                        /\ \A j \in 1..Len(pairs) : pairs[j].key = key => j <= i
    IN  [key \in keys |-> IF pairs[last(key)].isNum THEN pairs[last(key)].n
                          ELSE pairs[last(key)].s]

\* Members of an object from position i on: "key":value{,"key":value}}
RECURSIVE ParseMembers(_, _, _)
ParseMembers(t, i, pairs) ==
    With(ParseString(t, i), LAMBDA k :
      IF ~k.ok \/ k.next > Len(t) \/ Char(t, k.next) # ":" THEN Fail
      ELSE With(ParseValue(t, k.next + 1), LAMBDA v :
        IF ~v.ok \/ v.next > Len(t) THEN Fail
        ELSE With(Append(pairs, [key |-> k.s, s |-> v.s, n |-> v.n,
                                 isNum |-> v.isNum]), LAMBDA acc :
          IF Char(t, v.next) = "}"
          THEN Got("", 0, FALSE, << ObjectOf(acc) >>, v.next + 1)
          ELSE IF Char(t, v.next) = ","
          THEN ParseMembers(t, v.next + 1, acc)
          ELSE Fail)))

\* Elements of an array from position i on: {...}{,{...}}]
RECURSIVE ParseElems(_, _, _)
ParseElems(t, i, elems) ==
    IF i > Len(t) \/ Char(t, i) # "{" THEN Fail
    ELSE With(ParseMembers(t, i + 1, << >>), LAMBDA o :
      IF ~o.ok \/ o.next > Len(t) THEN Fail
      ELSE With(elems \o o.val, LAMBDA acc :
        IF Char(t, o.next) = "]"
        THEN Got("", 0, FALSE, acc, o.next + 1)
        ELSE IF Char(t, o.next) = ","
        THEN ParseElems(t, o.next + 1, acc)
        ELSE Fail))

\* JSON.parse on the texts the store can hold: the literal null, an array of
\* flat objects, or a SyntaxError (ok = FALSE).
JSONparse(t) ==
    LET none == [ok |-> FALSE, isNull |-> FALSE, arr |-> << >>]
    IN  IF t = "null" THEN [ok |-> TRUE, isNull |-> TRUE, arr |-> << >>]
        ELSE IF Len(t) >= 2 /\ Char(t, 1) = "["
        THEN IF Char(t, 2) = "]"
             THEN IF Len(t) = 2
                  THEN [ok |-> TRUE, isNull |-> FALSE, arr |-> << >>] ELSE none
             ELSE With(ParseElems(t, 2, << >>), LAMBDA r :
                    IF r.ok /\ r.next = Len(t) + 1
                    THEN [ok |-> TRUE, isNull |-> FALSE, arr |-> r.val]
                    ELSE none)
        ELSE none

\* ------------------------------------------------------------------ state
VARIABLES
    client,         \* isClient(): window and localStorage both exist
    localStorage,   \* the 'notes' key: [has |-> present?, val |-> its text]
    notes,          \* notes.value when it is an array
    notesNull,      \* notes.value === null (JSON.parse returned null)
    currentNoteId,  \* currentNoteId.value, an id or Null
    dirty,          \* dirty.value
    mounted,        \* onMounted has run
    now,            \* the last value Date.now() returned
    usedIds,        \* ids the id generator will not produce again
    hist,           \* which history is kept: "ops" or "commits"
    lastOp,         \* history "ops": the handler that ran last, its inputs
    committed,      \* history "commits": id, title and body of every note
                    \*   as of its last commit (load, creation or save)
    runIds,         \* history: ids made by the current run of creates
    runBase         \* history: notes when that run started

vars == << client, localStorage, notes, notesNull, currentNoteId, dirty,
           mounted, now, usedIds, hist, lastOp, committed, runIds, runBase >>

Absent    == [has |-> FALSE, val |-> ""]
Stored(t) == [has |-> TRUE, val |-> t]

\* A note a previous session left in the store.
OldNote == [id |-> IdNames[1], title |-> "a\"b", body |-> "",
            created |-> 0, updated |-> 0]

\* What the 'notes' key can hold when the page opens: nothing, text that is
\* not JSON, the JSON text null, or an array written by an earlier session.
InitialStores ==
    { Absent,
      Stored("not json"),
      Stored("null"),
      Stored(JSONstringify(FALSE, << OldNote >>)) }

IdsIn(ns) == {ns[i].id : i \in 1..Len(ns)}

\* What the history keeps of a handler run: its name, the id deleteNote got,
\* confirm()'s answer (TRUE when it was not asked), whether deleteNote removed
\* a note and whether that note was current, and what ran just before.
Op(name, id, ok, hit, wasCur, after) ==
    [op |-> name, id |-> id, ok |-> ok, hit |-> hit, wasCur |-> wasCur,
     after |-> after]
Plain(name) == Op(name, Null, TRUE, FALSE, FALSE, "")

\* The next value of a history variable: recorded only in its own mode.
Log(op)      == IF hist = "ops" THEN op ELSE lastOp
Commit(seq)  == IF hist = "commits" THEN seq ELSE committed
LogIds(ids)  == IF hist = "ops" THEN ids ELSE runIds
LogBase(ns)  == IF hist = "ops" THEN ns ELSE runBase
Keys(ns)     == [i \in 1..Len(ns) |->
                   [id |-> ns[i].id, title |-> ns[i].title, body |-> ns[i].body]]

\* The state after construction (lines 96-98): nothing loaded yet.
InitWith(h) ==
    /\ hist = h
    /\ client \in BOOLEAN
    /\ localStorage \in (IF client THEN InitialStores ELSE {Absent})
    /\ notes = << >>
    /\ notesNull = FALSE
    /\ currentNoteId = Null
    /\ dirty = FALSE
    /\ mounted = FALSE
    /\ now = 0
    /\ usedIds = IF localStorage.has /\ JSONparse(localStorage.val).ok
                 THEN IdsIn(JSONparse(localStorage.val).arr) ELSE {}
    /\ lastOp = Plain("init")
    /\ committed = << >>
    /\ runIds = << >>
    /\ runBase = << >>

\* ---------------------------------------------------------------- helpers
\* isClient(), lines 80-82.
isClient == client

\* loadNotes(), lines 85-94: [] unless the key holds text JSON.parse accepts.
loadNotes(ls) ==
    LET empty == [isNull |-> FALSE, arr |-> << >>]
    IN  IF ~isClient THEN empty
        ELSE IF ~ls.has \/ ls.val = "" THEN empty
        ELSE LET r == JSONparse(ls.val)
             IN  IF r.ok THEN [isNull |-> r.isNull, arr |-> r.arr] ELSE empty

\* A persistNotes that writes nothing.
persistNotes_skip(ls, isNull, ns) == ls

\* persistNotes(), lines 119-123: the whole of notes.value, client only.
persistNotes(ls, isNull, ns) ==
    IF isClient THEN Stored(JSONstringify(isNull, ns)) ELSE ls

\* The deep watcher of lines 180-182: after a handler that set notes.value
\* or changed anything inside it, persistNotes runs once more.
Watch(ls, triggered, isNull, ns) ==
    IF triggered THEN persistNotes(ls, isNull, ns) ELSE ls

\* A findIndex whose -1 is taken from the end of the array, as splice does.
findIndex_fromEnd(ns, id) ==
    IF \E i \in 1..Len(ns) : ns[i].id = id
    THEN CHOOSE i \in 1..Len(ns) :
            ns[i].id = id /\ \A j \in 1..(i - 1) : ns[j].id # id
    ELSE Len(ns)

\* Array.prototype.findIndex by id (lines 149, 169); 0 stands for -1.
findIndex(ns, id) ==
    IF \E i \in 1..Len(ns) : ns[i].id = id
    THEN CHOOSE i \in 1..Len(ns) :
            ns[i].id = id /\ \A j \in 1..(i - 1) : ns[j].id # id
    ELSE 0

\* currentNote, lines 114-117: the index of the current note, 0 for null.
currentNote(ns, cur) == IF cur = Null THEN 0 ELSE findIndex(ns, cur)

\* A guard that ignores confirm()'s answer.
Proceeds_always(d, ok) == TRUE

\* Lines 126 and 132: the handler goes on unless dirty and confirm() said no.
Proceeds(d, ok) == ~(d /\ ~ok)

\* Line 148: deleteNote goes on only if confirm() said yes.
DeleteProceeds(ok) == ok

\* push in place of unshift: the note goes to the end.
unshift_push(ns, note) == Append(ns, note)

\* notes.value.unshift(note), line 141.
unshift(ns, note) == << note >> \o ns

\* notes.value.splice(idx, 1), line 151.
splice(ns, idx) == SubSeq(ns, 1, idx - 1) \o SubSeq(ns, idx + 1, Len(ns))

\* No note is made current after the delete.
FirstId_none(ns) == Null

\* notes.value[0]?.id ?? null, line 156.
FirstId(ns) == IF Len(ns) > 0 THEN ns[1].id ELSE Null

\* A delete that makes the first note current whatever note was current.
AfterDelete_always(cur, d, id, ns) == [cur |-> FirstId(ns), dirty |-> FALSE]

\* A delete that moves the current id and leaves dirty as it was.
AfterDelete_keepDirty(cur, d, id, ns) ==
    IF cur = id THEN [cur |-> FirstId(ns), dirty |-> d]
    ELSE [cur |-> cur, dirty |-> d]

\* Lines 155-158: what deleteNote(id) makes of currentNoteId and dirty, ns
\* being the notes it leaves.
AfterDelete(cur, d, id, ns) ==
    IF cur = id THEN [cur |-> FirstId(ns), dirty |-> FALSE]
    ELSE [cur |-> cur, dirty |-> d]

\* Date.now(): never less than the value it returned before.
DateNow(prev) == {t \in prev..MaxClock : t <= prev + 1}

\* An id made of the time alone: the same for creates in one millisecond.
FreshIds_timeOnly(used) == {IdNames[1]}

\* Line 133: an id made of the time and a random number. The model takes
\* it to be one the generator has not produced and the store did not hold,
\* and, ids being opaque, the first such one.
FreshIds(used) ==
    {IdNames[i] : i \in {j \in 1..(MaxNotes + 1) :
                            /\ IdNames[j] \notin used
                            /\ \A k \in 1..(j - 1) : IdNames[k] \in used}}

\* The Note literal of lines 134-140.
NewNote(id, t1, t2) ==
    [id |-> id, title |-> "", body |-> "", created |-> t1, updated |-> t2]

\* A copy that stamps the note anew.
Spread_restamp(note) == [note EXCEPT !.created = note.updated]

\* { ...currentNote.value }, line 171: a copy with the same properties.
Spread(note) == [f \in DOMAIN note |-> note[f]]

\* An onMounted that loads the notes and makes none current.
MountResult_noSelect(ls, cur0) ==
    IF ~isClient
    THEN [notes |-> << >>, notesNull |-> FALSE, cur |-> cur0, store |-> ls]
    ELSE With(loadNotes(ls), LAMBDA l :
           [notes     |-> l.arr,
            notesNull |-> l.isNull,
            cur       |-> cur0,
            store     |-> Watch(ls, TRUE, l.isNull, l.arr)])

\* What onMounted (lines 105-112) leaves, started with currentNoteId = cur0:
\* it does nothing outside a client; null.length throws after the assignment.
MountResult(ls, cur0) ==
    IF ~isClient
    THEN [notes |-> << >>, notesNull |-> FALSE, cur |-> cur0, store |-> ls]
    ELSE With(loadNotes(ls), LAMBDA l :
           [notes     |-> l.arr,
            notesNull |-> l.isNull,
            cur       |-> IF ~l.isNull /\ Len(l.arr) > 0 /\ cur0 = Null
                          THEN l.arr[1].id ELSE cur0,
            store     |-> Watch(ls, TRUE, l.isNull, l.arr)])

\* ---------------------------------------------------------------- actions
\* onMounted, lines 105-112, when the page is opened.
onMounted ==
    /\ ~mounted
    /\ \E m \in {MountResult(localStorage, currentNoteId)} :
           /\ notes' = m.notes
           /\ notesNull' = m.notesNull
           /\ currentNoteId' = m.cur
           /\ localStorage' = m.store
           /\ committed' = Commit(Keys(m.notes))
           /\ runBase' = LogBase(m.notes)
    /\ mounted' = TRUE
    /\ runIds' = LogIds(<< >>)
    /\ lastOp' = Log(Plain("mount"))
    /\ UNCHANGED << client, dirty, now, usedIds, hist >>

\* A page reload: the refs are constructed again (lines 96-98) and onMounted
\* runs before any handler can.
Reload ==
    /\ mounted
    /\ \E m \in {MountResult(localStorage, Null)} :
           /\ notes' = m.notes
           /\ notesNull' = m.notesNull
           /\ currentNoteId' = m.cur
           /\ localStorage' = m.store
           /\ committed' = Commit(Keys(m.notes))
           /\ runBase' = LogBase(m.notes)
    /\ dirty' = FALSE
    /\ runIds' = LogIds(<< >>)
    /\ lastOp' = Log(Op("reload", Null, TRUE, FALSE, FALSE,
                    IF lastOp.op = "save" THEN "save" ELSE ""))
    /\ UNCHANGED << client, mounted, now, usedIds, hist >>

\* selectNote(id), lines 125-129, called with an id of the set ids.
selectFrom(ids) ==
    /\ mounted
    /\ \E id \in ids, ok \in (IF dirty THEN BOOLEAN ELSE {TRUE}) :
        /\ IF Proceeds(dirty, ok)
           THEN currentNoteId' = id /\ dirty' = FALSE
           ELSE UNCHANGED << currentNoteId, dirty >>
        /\ lastOp' = Log(Op("select", Null, ok, FALSE, FALSE, ""))
    /\ runIds' = LogIds(<< >>)
    /\ runBase' = LogBase(notes)
    /\ UNCHANGED << client, localStorage, notes, notesNull, mounted, now,
                    usedIds, hist, committed >>

\* selectNote called with any id: one a note has or had, or one of no note.
selectNote == selectFrom(Args(usedIds))

\* selectNote as the notes list calls it (lines 9-13): with the id of a
\* note that is in notes.
selectListed == selectFrom(IdsIn(notes))

\* createNewNote(), lines 131-145. The id is one the generator has not made
\* before; Date.now() is read for the id, for created and for updated.
createNewNote ==
    /\ mounted
    /\ Len(notes) < MaxNotes
    /\ \E ok \in (IF dirty THEN BOOLEAN ELSE {TRUE}) :
        IF ~Proceeds(dirty, ok)
        THEN /\ lastOp' = Log(Op("create", Null, ok, FALSE, FALSE, ""))
             /\ runIds' = LogIds(<< >>)
             /\ runBase' = LogBase(notes)
             /\ UNCHANGED << localStorage, notes, notesNull, currentNoteId,
                             dirty, now, usedIds, committed >>
        ELSE \E id \in FreshIds(usedIds) :
             \E t0 \in DateNow(now) : \E t1 \in DateNow(t0) : \E t2 \in DateNow(t1) :
               /\ now' = t2
               /\ usedIds' = usedIds \cup {id}
               /\ IF notesNull
                  THEN \* null.unshift: TypeError, the handler ends here
                       /\ lastOp' = Log(Plain("throw"))
                       /\ runIds' = LogIds(<< >>)
                       /\ runBase' = LogBase(notes)
                       /\ UNCHANGED << localStorage, notes, notesNull,
                                       currentNoteId, dirty, committed >>
                  ELSE LET note == NewNote(id, t1, t2)
                           ns   == unshift(notes, note)
                           ls   == persistNotes(localStorage, FALSE, ns)
                       IN  /\ notes' = ns
                           /\ localStorage' = Watch(ls, TRUE, FALSE, ns)
                           /\ currentNoteId' = note.id
                           /\ dirty' = FALSE
                           /\ committed' = Commit(unshift(committed, Keys(<< note >>)[1]))
                           /\ runIds' = LogIds(Append(runIds, id))
                           /\ lastOp' = Log(Plain("create"))
                           /\ UNCHANGED << notesNull, runBase >>
    /\ UNCHANGED << client, mounted, hist >>

\* deleteNote(id), lines 147-159.
deleteNote ==
    /\ mounted
    /\ \E id \in Args(usedIds), ok \in BOOLEAN :
        IF ~DeleteProceeds(ok)
        THEN /\ lastOp' = Log(Op("delete", id, ok, FALSE, FALSE, ""))
             /\ UNCHANGED << localStorage, notes, currentNoteId, dirty,
                             committed >>
        ELSE IF notesNull
        THEN \* null.findIndex: TypeError, the handler ends here
             /\ lastOp' = Log(Plain("throw"))
             /\ UNCHANGED << localStorage, notes, currentNoteId, dirty,
                             committed >>
        ELSE LET idx == findIndex(notes, id)
                 ns  == IF idx >= 1 THEN splice(notes, idx) ELSE notes
                 ls  == IF idx >= 1 THEN persistNotes(localStorage, FALSE, ns)
                        ELSE localStorage
             IN  /\ notes' = ns
                 /\ localStorage' = Watch(ls, idx >= 1, FALSE, ns)
                 /\ committed' = Commit(IF idx >= 1 /\ hist = "commits"
                                         THEN splice(committed, idx)
                                         ELSE committed)
                 /\ \E a \in {AfterDelete(currentNoteId, dirty, id, ns)} :
                        currentNoteId' = a.cur /\ dirty' = a.dirty
                 /\ lastOp' = Log(Op("delete", id, ok, idx >= 1,
                                 idx >= 1 /\ currentNoteId = id,
                                 IF lastOp.op = "delete" /\ lastOp.ok
                                    /\ lastOp.id = id
                                 THEN "same" ELSE ""))
    /\ runIds' = LogIds(<< >>)
    /\ runBase' = LogBase(notes')
    /\ UNCHANGED << client, notesNull, mounted, now, usedIds, hist >>

\* An input event on the title or the body (lines 33-45): v-model assigns the
\* typed text to the property of currentNote.value, which is the note inside
\* notes.value, and updateCurrentNote (lines 161-165) runs.
updateCurrentNote ==
    /\ mounted
    /\ IF notesNull /\ currentNoteId # Null
       THEN \* null.find in currentNote: TypeError
            /\ lastOp' = Log(Plain("throw"))
            /\ UNCHANGED << localStorage, notes, dirty, now >>
       ELSE LET idx == currentNote(notes, currentNoteId)
            IN  IF idx = 0
                THEN /\ lastOp' = Log(Plain("edit_noop"))
                     /\ UNCHANGED << localStorage, notes, dirty, now >>
                ELSE \E f \in {"title", "body"} :
                     \E v \in Texts \ {notes[idx][f]} :
                     \E t \in DateNow(now) :
                       LET ns == [notes EXCEPT ![idx] =
                                    [@ EXCEPT ![f] = v, !.updated = t]]
                       IN  /\ notes' = ns
                           /\ now' = t
                           /\ dirty' = TRUE
                           /\ localStorage' =
                                Watch(localStorage, TRUE, FALSE, ns)
                           /\ lastOp' = Log(Plain("edit"))
    /\ runIds' = LogIds(<< >>)
    /\ runBase' = LogBase(notes')
    /\ UNCHANGED << client, notesNull, currentNoteId, mounted, usedIds,
                    hist, committed >>

\* saveCurrentNote(), lines 167-175.
saveCurrentNote ==
    /\ mounted
    /\ IF notesNull /\ currentNoteId # Null
       THEN \* null.find in currentNote: TypeError
            /\ lastOp' = Log(Plain("throw"))
            /\ UNCHANGED << localStorage, notes, dirty, committed >>
       ELSE LET cur == currentNote(notes, currentNoteId)
            IN  IF cur = 0
                THEN /\ lastOp' = Log(Plain("save_noop"))
                     /\ UNCHANGED << localStorage, notes, dirty, committed >>
                ELSE LET idx == findIndex(notes, notes[cur].id)
                         ns  == [notes EXCEPT ![idx] = Spread(notes[cur])]
                         ls  == persistNotes(localStorage, FALSE, ns)
                     IN  /\ notes' = ns
                         /\ localStorage' = Watch(ls, TRUE, FALSE, ns)
                         /\ dirty' = FALSE
                         /\ committed' = Commit(IF hist = "commits"
                                                THEN [committed EXCEPT
                                                        ![idx] = Keys(ns)[idx]]
                                                ELSE committed)
                         /\ lastOp' = Log(Plain("save"))
    /\ runIds' = LogIds(<< >>)
    /\ runBase' = LogBase(notes')
    /\ UNCHANGED << client, notesNull, currentNoteId, mounted, now, usedIds,
                    hist >>

Next ==
    \/ onMounted
    \/ Reload
    \/ selectNote
    \/ createNewNote
    \/ deleteNote
    \/ updateCurrentNote
    \/ saveCurrentNote

Init == InitWith("ops")

\* The same program in a client whose store starts empty, with the history
\* of commits kept instead.
InitCommits == InitWith("commits") /\ client /\ localStorage = Absent

Spec == Init /\ [][Next]_vars

SpecCommits == InitCommits /\ [][Next]_vars

\* The page used through its notes list only: onMounted runs once, at
\* startup, and selectNote gets the id of a listed note.
NextSidebar ==
    \/ onMounted
    \/ selectListed
    \/ createNewNote
    \/ deleteNote
    \/ updateCurrentNote
    \/ saveCurrentNote

SpecSidebar == Init /\ [][NextSidebar]_vars

\* ------------------------------------------------------------- properties
\* What JSON.parse makes of the text under the 'notes' key.
Decoded == JSONparse(localStorage.val)

\* The store holds the text of an array equal to notes.value.
StoreHoldsNotes ==
    /\ localStorage.has
    /\ Decoded.ok /\ ~Decoded.isNull
    /\ Decoded.arr = notes

\* The index in notes of the note that is current, 0 if there is none.
CurIdx == currentNote(notes, currentNoteId)

\* Evaluating currentNote (lines 114-117) throws: notes.value is null and
\* find is called on it.
CurrentThrows == notesNull /\ currentNoteId # Null

\* The text under the 'notes' key is absent or is not that of an array.
StoreMalformed == ~localStorage.has \/ ~Decoded.ok \/ Decoded.isNull

\* C1: in a client, an edit of the current note sets dirty and leaves the
\* text under the 'notes' key as it was.
C1_EditLeavesStore ==
    [][(client /\ lastOp'.op = "edit")
         => (dirty' /\ localStorage' = localStorage)]_vars

\* C2: dirty is true exactly when the title or body of the current note in
\* memory differs from what the store holds for that note.
C2_DirtyIffUnpersisted ==
    (client /\ mounted /\ ~notesNull /\ localStorage.has /\ Decoded.ok)
      => (dirty <=> /\ CurIdx # 0
                    /\ ~\E j \in 1..Len(Decoded.arr) :
                          /\ Decoded.arr[j].id = notes[CurIdx].id
                          /\ Decoded.arr[j].title = notes[CurIdx].title
                          /\ Decoded.arr[j].body = notes[CurIdx].body)

\* C3: in a client, right after a create that went ahead, a confirmed delete
\* that removed a note, or a save with a current note, the store holds the
\* serialization of the whole of notes: same notes, order and field values.
C3_StoreAfterMutation ==
    (client /\ \/ (lastOp.op = "create" /\ lastOp.ok)
               \/ (lastOp.op = "delete" /\ lastOp.hit)
               \/ lastOp.op = "save")
      => StoreHoldsNotes

C3_Witness ==
    /\ client /\ lastOp.op = "delete" /\ lastOp.hit
    /\ Len(notes) >= 1 /\ notes[1].title = "a\"b"

\* C4: a save with a current note followed by a reload gives back the notes
\* that were in memory at the save: same length, order and fields.
C4_SaveReloadRoundTrip ==
    [][(client /\ lastOp.op = "save" /\ lastOp'.op = "reload")
         => (~notesNull' /\ notes' = notes)]_vars

C4_Witness ==
    /\ client /\ lastOp.op = "reload" /\ lastOp.after = "save"
    /\ Len(notes) = 2 /\ notes[2].body = "a\"b" /\ notes[1].updated > 0

\* C5: a select or create declined while dirty, and a declined delete, leave
\* notes, currentNoteId, dirty and the store as they were.
C5_DeclinedChangesNothing ==
    [][(lastOp'.op \in {"select", "create", "delete"} /\ ~lastOp'.ok)
         => /\ notes' = notes /\ notesNull' = notesNull
            /\ currentNoteId' = currentNoteId
            /\ dirty' = dirty
            /\ localStorage' = localStorage]_vars

C5_Witness ==
    /\ lastOp.op = "select" /\ ~lastOp.ok
    /\ dirty /\ Len(notes) = 2

\* C6: a select or create confirmed while dirty discards the unsaved edits:
\* afterwards the title and body of the note that was current are those of
\* its last commit.
C6_ConfirmDiscardsEdits ==
    [][(dirty /\ ~dirty' /\ CurIdx # 0 /\ (selectNote \/ createNewNote))
         => \A j \in 1..Len(notes') :
              notes'[j].id = notes[CurIdx].id
                => /\ committed'[j].id = notes'[j].id
                   /\ notes'[j].title = committed'[j].title
                   /\ notes'[j].body = committed'[j].body]_vars

\* C7: a create that goes ahead puts the new note before the previous notes,
\* with empty title and body and created = updated, makes it current, clears
\* dirty and (in a client) leaves the store holding the new notes.
C7_CreateResult ==
    [][(lastOp'.op = "create" /\ lastOp'.ok)
         => /\ Len(notes') = Len(notes) + 1
            /\ Tail(notes') = notes
            /\ notes'[1].title = "" /\ notes'[1].body = ""
            /\ notes'[1].created = notes'[1].updated
            /\ currentNoteId' = notes'[1].id
            /\ ~dirty'
            /\ (client => StoreHoldsNotes')]_vars

\* C8: after a run of creates the notes they made stand at the front of
\* notes, the latest first, ahead of the notes that were there before.
C8_CreatesPrependInReverse ==
    /\ Len(notes) = Len(runIds) + Len(runBase)
    /\ \A k \in 1..Len(runIds) : notes[k].id = runIds[Len(runIds) + 1 - k]
    /\ \A k \in 1..Len(runBase) : notes[Len(runIds) + k] = runBase[k]

C8_Witness == Len(runIds) >= 2 /\ notes[1].id = runIds[2]

\* C9: when a confirmed delete removed the note that was current, the
\* current id is that of the first remaining note, or none if no note
\* remains, and dirty is false.
C9_DeleteCurrentSelectsFirst ==
    (lastOp.op = "delete" /\ lastOp.wasCur)
      => /\ currentNoteId = (IF notes = << >> THEN Null ELSE notes[1].id)
         /\ ~dirty

C9_Witness ==
    /\ lastOp.op = "delete" /\ lastOp.wasCur
    /\ Len(notes) >= 1 /\ currentNoteId = notes[1].id

\* C10: a second confirmed delete of the same id right after the first
\* leaves notes and the store as the first left them.
C10_DeleteIdempotent ==
    [][(/\ lastOp.op = "delete" /\ lastOp.ok
        /\ lastOp'.op = "delete" /\ lastOp'.ok
        /\ lastOp'.id = lastOp.id)
         => (notes' = notes /\ localStorage' = localStorage)]_vars

C10_Witness ==
    /\ lastOp.op = "delete" /\ lastOp.ok /\ lastOp.after = "same"
    /\ lastOp.id # AbsentId /\ Len(notes) >= 1

\* C11: in every state the derived current note is none when currentNoteId
\* is none, when notes is empty or when no note has that id, and otherwise
\* is the one note whose id is currentNoteId; deriving it never fails.
C11_DerivedCurrent ==
    /\ ~CurrentThrows
    /\ IF \/ currentNoteId = Null
          \/ notes = << >>
          \/ \A i \in 1..Len(notes) : notes[i].id # currentNoteId
       THEN CurIdx = 0
       ELSE /\ CurIdx \in 1..Len(notes)
            /\ notes[CurIdx].id = currentNoteId

\* C12: no two notes of notes have the same id.
C12_UniqueIds ==
    \A i, j \in 1..Len(notes) : notes[i].id = notes[j].id => i = j

C12_Witness ==
    /\ Len(notes) = 2 /\ Cardinality(usedIds) = 3
    /\ lastOp.op = "create" /\ lastOp.ok

\* C13: a load from a store whose value is absent or is not the text of an
\* array of notes gives an empty notes, no current note, and no error.
C13_MalformedLoadsEmpty ==
    [][(lastOp'.op \in {"mount", "reload"} /\ StoreMalformed)
         => (~notesNull' /\ notes' = << >> /\ currentNoteId' = Null)]_vars

\* C14: a confirmed delete of an id that no note has leaves notes,
\* currentNoteId, dirty and the store as they were.
C14_DeleteAbsentNoOp ==
    [][(lastOp'.op = "delete" /\ lastOp'.ok /\ ~lastOp'.hit)
         => /\ notes' = notes
            /\ currentNoteId' = currentNoteId
            /\ dirty' = dirty
            /\ localStorage' = localStorage]_vars

\* C15: a confirmed delete that removed a note other than the current one
\* leaves currentNoteId and dirty as they were, and leaves the other notes
\* with their fields and in their order.
C15_DeleteOtherKeepsCurrent ==
    [][(lastOp'.op = "delete" /\ lastOp'.hit /\ ~lastOp'.wasCur)
         => /\ currentNoteId' = currentNoteId
            /\ dirty' = dirty
            /\ \E i \in 1..Len(notes) :
                  /\ notes[i].id = lastOp'.id
                  /\ notes' = SubSeq(notes, 1, i - 1)
                                \o SubSeq(notes, i + 1, Len(notes))]_vars

C15_Witness ==
    /\ lastOp.op = "delete" /\ lastOp.hit /\ ~lastOp.wasCur
    /\ dirty /\ Len(notes) >= 1

\* C16: no step changes the created value of a note that stays in notes
\* under its id, and an edit or a save keeps every note in its place with
\* its id and created, changing only the current note.
C16_IdAndCreatedFixed ==
    [][/\ \A i \in 1..Len(notes), j \in 1..Len(notes') :
            notes'[j].id = notes[i].id => notes'[j].created = notes[i].created
       /\ lastOp'.op \in {"edit", "save"}
            => /\ Len(notes') = Len(notes)
               /\ \A i \in 1..Len(notes) :
                     /\ notes'[i].id = notes[i].id
                     /\ notes'[i].created = notes[i].created
                     /\ i # CurIdx => notes'[i] = notes[i]]_vars

C16_Witness ==
    /\ lastOp.op = "save"
    /\ \E i \in 1..Len(notes) :
          notes[i].updated > notes[i].created /\ notes[i].title = "a\"b"

\* C17: in a client, once the page is mounted, the store holds after every
\* operation the text of an array equal to notes; a load of an absent or
\* malformed value leaves the empty array there.
C17_StoreMirrorsNotes == (client /\ mounted) => StoreHoldsNotes

\* C18: with onMounted run once and selectNote given ids of listed notes
\* only, after the load currentNoteId is none exactly when notes is empty
\* and is otherwise the id of a note of notes.
C18_CurrentNeverDangles ==
    mounted => /\ currentNoteId = Null <=> notes = << >>
               /\ currentNoteId # Null
                    => \E i \in 1..Len(notes) : notes[i].id = currentNoteId

C18_Witness ==
    /\ mounted /\ lastOp.op = "delete" /\ lastOp.hit /\ ~lastOp.wasCur
    /\ Len(notes) = 1 /\ currentNoteId = notes[1].id

\* C19: whenever dirty is true the derived current note exists.
C19_DirtyHasCurrent == dirty => (~notesNull /\ CurIdx # 0)

C19_Witness ==
    /\ dirty /\ lastOp.op = "delete" /\ lastOp.hit /\ Len(notes) = 1

====
